---- MODULE Spec2Model ----
(***************************************************************************)
(* TaskFlow REST backend (server/routes.ts, server/auth.ts) as a state      *)
(* machine over the database tables.  Every route handler is a sequence of  *)
(* awaited Prisma calls; each awaited call is one atomic step, and requests *)
(* in flight between two of their calls are kept in the bag `reqs`, so      *)
(* handlers of different requests interleave exactly at their awaits.       *)
(* A step that sends the HTTP response stores it in `resp`; every other     *)
(* step clears `resp`.                                                      *)
(***************************************************************************)
EXTENDS Integers, Sequences, FiniteSets, Bags, TLC

VARIABLES
    users,          \* User table: sequence of rows, a row's id is its index
    projects,       \* Project table: set of rows [id, name]
    nextProjectId,  \* next fresh Project id (ids are never reused)
    members,        \* ProjectMember table: bag of rows [projectId, userId, role]
    tasks,          \* Task table: set of rows
    nextTaskId,     \* next fresh Task id
    comments,       \* Comment table: sequence of rows [taskId, userId, content]
    attachments,    \* Attachment table: sequence of rows [taskId, uploaderId, filename, url]
    reqs,           \* bag of requests suspended at an await
    clients,        \* number of client connections, each with one request outstanding at most
    app,            \* the mobile client: AuthProvider's state, its storage and query cache
    uploads,        \* files in the uploads directory: set of stored file names
    now,            \* the server's clock, in days
    issued,         \* the tokens generateToken has handed out
    resp            \* the response sent by the last step, or NoResp

db == <<users, projects, nextProjectId, members, tasks, nextTaskId, comments, attachments, clients, app,
       uploads, now, issued>>
vars == <<users, projects, nextProjectId, members, tasks, nextTaskId, comments, attachments,
          reqs, clients, app, uploads, now, issued, resp>>

----------------------------------------------------------------------------
(* Bounds of the model. *)
MaxUsers == 2
MaxProjects == 1
MaxTasks == 1
MaxComments == 1
MaxThread == 2
MaxAttachments == 1
MaxLaunches == 2                    \* starts of the mobile app at most
MaxUploads == 1                     \* files written to the uploads directory at most
MaxClients == 2
MaxTime == 8                        \* days the clock runs
MaxTokens == 3                      \* tokens handed out at most
MaxFieldsPresent == 2               \* fields a body of the task editor carries at most

(* Values request bodies are drawn from. *)
Undefined == "undefined"            \* a field absent from the request body
NoId == 0                           \* no row / null reference
Null == "null"                      \* an explicit null in the body, or a NULL column
Emails == {"a@x", "b@x", "c@x"}
PasswordInputs == {"pw1", "pw2"}
DisplayNameInputs == {Undefined, "Al"}
Usernames == {"alice", "bob"}
RoleInputs == {Undefined, "admin"}
AuthorInputs == {0, 1}              \* an author id put into the body (0: none)
ProjectNames == {"Launch"}
TitleInputs == {Undefined, "Write docs"}
StatusInputs == {Undefined, "completed"}
PriorityInputs == {Undefined, "high"}
ContentInputs == {Undefined, "", "hi"}
ThreadContents == {"", "hi", "done"}
Absent == -1                        \* an id-valued field absent from the request body
DateInputs == {Undefined, Null, "2026-12-01"}
TaskFields == {"title", "description", "status", "priority", "dueDate", "assigneeId"}

\* bodies of POST /api/tasks and PUT /api/tasks/:id sent while the whole API is in use
CreateTaskBodies ==
    [title : TitleInputs, description : {Undefined}, status : StatusInputs,
     priority : PriorityInputs, dueDate : {Undefined}, assigneeId : {Absent},
     author : AuthorInputs]
UpdateTaskBodies ==
    [title : TitleInputs, description : {Undefined}, status : StatusInputs,
     priority : PriorityInputs, dueDate : {Undefined}, assigneeId : {Absent},
     projectId : {Absent}, creatorId : {Absent}]

\* bodies of PUT /api/tasks/:id that name another project or another creator
TransferBodies ==
    [title : {Undefined, "Ship it"}, description : {Undefined}, status : {Undefined},
     priority : {Undefined}, dueDate : {Undefined}, assigneeId : {Absent},
     projectId : {Absent, 1, 2}, creatorId : {Absent, 2, 3}]

\* the fields a body carries
Present(b) ==
    {f \in TaskFields : IF f = "assigneeId" THEN b[f] # Absent ELSE b[f] # Undefined}

\* bodies of the task editor: any value in any field, MaxFieldsPresent fields at most
EditorCreateBodies ==
    {b \in [title : {"Write docs"}, description : {Undefined, "draft"},
            status : {Undefined, "urgent"}, priority : {Undefined},
            dueDate : {Undefined, "2026-12-01"}, assigneeId : {Absent, 2},
            author : {0}] : Cardinality(Present(b)) <= MaxFieldsPresent}
EditorUpdateBodies ==
    {b \in [title : {Undefined, "", "Ship it"}, description : {Undefined, "final"},
            status : {Undefined, "completed", "urgent"}, priority : {Undefined, "high"},
            dueDate : DateInputs, assigneeId : {Absent, NoId, 1, 2},
            projectId : {Absent}, creatorId : {Absent}] :
        Cardinality(Present(b)) <= MaxFieldsPresent}
FileInputs == {Undefined, "a.png"}

NoResp == [status |-> 0]

\* JavaScript's !v on a body field
Falsy(v) == v \in {Undefined, Null, ""}

----------------------------------------------------------------------------
(* The database: lookups, and the constraints the schema puts on writes. *)

UserIds == 1..Len(users)
\* ids a request names: those handed out so far and, up to the bound, the next ones
ProjectIdInputs == 1..(IF nextProjectId - 1 > MaxProjects THEN nextProjectId - 1 ELSE MaxProjects)
TaskIdInputs == 1..(IF nextTaskId - 1 > MaxTasks THEN nextTaskId - 1 ELSE MaxTasks)

\* prisma.user.findUnique({ where: { email } }): the row's id, or NoId
FindUserByEmail(email) ==
    IF \E i \in UserIds : users[i].email = email
    THEN CHOOSE i \in UserIds : users[i].email = email
    ELSE NoId

\* prisma.user.findUnique({ where: { username } })
FindUserByUsername(username) ==
    IF \E i \in UserIds : users[i].username = username
    THEN CHOOSE i \in UserIds : users[i].username = username
    ELSE NoId

MemberRows == BagToSet(members)

\* where: { members: { some: { userId } } } on a project id
IsMember(uid, pid) ==
    \E m \in MemberRows : m.projectId = pid /\ m.userId = uid

ProjectExists(pid) == \E p \in projects : p.id = pid

TaskExists(tid) == \E t \in tasks : t.id = tid

TaskById(tid) == CHOOSE t \in tasks : t.id = tid

\* unique constraints on User.email and User.username, enforced at insert
UserUniqueViolation(email, username) ==
    \E i \in UserIds : users[i].email = email \/ users[i].username = username

----------------------------------------------------------------------------
(* Requests in flight. *)

InFlight == BagToSet(reqs)
CanAccept == BagCardinality(reqs) < clients
At(r, pc) == [r EXCEPT !.pc = pc]
\* a new request r stops at its first await and will continue at pc
Suspend(r, pc) == reqs (+) SetToBag({At(r, pc)})
\* the suspended request r is taken up again, and answered
Resume(r) == reqs (-) SetToBag({r})
\* the suspended request r is taken up again and stops at its next await
Move(r, pc) == (reqs (-) SetToBag({r})) (+) SetToBag({At(r, pc)})

Response(r, status, error, body) ==
    [status |-> status, error |-> error, req |-> r, body |-> body]

NoBody == [none |-> TRUE]

----------------------------------------------------------------------------
(* POST /api/auth/register *)

\* the signing key, known to the server only
JWT_SECRET == "SESSION_SECRET"

\* expiresIn: "7d"
TokenLifetime == 7

\* jwt.sign: the claims and a signature that binds them to the key
Sign(claims, key) == [claims |-> claims, sig |-> <<key, claims>>]

\* the token of a user: the identity, and the day from which it is no longer valid
generateToken(id, email, username) ==
    Sign([id |-> id, email |-> email, username |-> username, exp |-> now + TokenLifetime],
         JWT_SECRET)

\* bcrypt.hash, and bcrypt.compare of a password with a stored hash
hashPassword(password) == <<"bcrypt", password>>
\* a comparison that accepts every password
comparePasswordAny(password, hash) == TRUE
comparePassword(password, hash) == hash = hashPassword(password)

\* route validation, then registerUser's first lookup
RegisterCheckEmail ==
    \E email \in Emails \cup {Undefined}, username \in Usernames, password \in PasswordInputs :
        LET r == [op |-> "register", email |-> email, username |-> username,
                  password |-> password, displayName |-> Undefined, pc |-> "checkEmail"] IN
        /\ CanAccept
        /\ Len(users) < MaxUsers
        /\ IF email = Undefined
           THEN /\ resp' = Response(r, 400, "Email, username, and password are required", NoBody)
                /\ UNCHANGED reqs
           ELSE IF FindUserByEmail(email) # NoId
           THEN /\ resp' = Response(r, 400, "Email already exists", NoBody)
                /\ UNCHANGED reqs
           ELSE /\ reqs' = Suspend(r, "checkUsername")
                /\ resp' = NoResp
        /\ UNCHANGED db

RegisterCheckUsername ==
    \E r \in InFlight :
        /\ r.op = "register" /\ r.pc = "checkUsername"
        /\ IF FindUserByUsername(r.username) # NoId
           THEN /\ resp' = Response(r, 400, "Username already exists", NoBody)
                /\ reqs' = Resume(r)
           ELSE /\ reqs' = Move(r, "create")
                /\ resp' = NoResp
        /\ UNCHANGED db

\* a catch block that answers like those of the other routes
RegisterErrorAsServerError == 400 + 100

\* the route's catch block: every error of registerUser becomes a 400
RegisterErrorStatus == 400

\* user.create's data: the password is stored hashed, the display name defaults
\* to the username
RegisterUserData(r) ==
    [email |-> r.email,
     username |-> r.username,
     password |-> hashPassword(r.password),
     displayName |-> IF r.displayName = Undefined THEN r.username ELSE r.displayName]

RegisterCreate ==
    \E r \in InFlight :
        /\ r.op = "register" /\ r.pc = "create"
        /\ reqs' = Resume(r)
        /\ IF UserUniqueViolation(r.email, r.username)
           THEN /\ resp' = Response(r, RegisterErrorStatus, "Unique constraint failed", NoBody)
                /\ UNCHANGED db
           ELSE /\ users' = Append(users, RegisterUserData(r))
                /\ issued' = issued \cup {generateToken(Len(users) + 1, r.email, r.username)}
                /\ resp' = Response(r, 200, "",
                                    [user |-> Len(users) + 1,
                                     token |-> generateToken(Len(users) + 1, r.email, r.username)])
                /\ UNCHANGED <<projects, nextProjectId, members, tasks, nextTaskId,
                               comments, attachments, clients, app, uploads, now>>

----------------------------------------------------------------------------
(* POST /api/auth/login *)

\* route validation, then loginUser's lookup of the user
LoginFindUser ==
    \E email \in Emails \cup {Undefined}, password \in PasswordInputs :
        LET r == [op |-> "login", email |-> email, password |-> password,
                  found |-> FindUserByEmail(email), pc |-> "findUser"] IN
        /\ CanAccept
        /\ Cardinality(issued) < MaxTokens
        /\ IF Falsy(email)
           THEN /\ resp' = Response(r, 400, "Email and password are required", NoBody)
                /\ UNCHANGED reqs
           ELSE IF r.found = NoId
           THEN /\ resp' = Response(r, 401, "Invalid credentials", NoBody)
                /\ UNCHANGED reqs
           ELSE /\ reqs' = Suspend(r, "compare")
                /\ resp' = NoResp
        /\ UNCHANGED db

\* comparePassword, then the token and the user's public fields
LoginCompare ==
    \E r \in InFlight :
        /\ r.op = "login" /\ r.pc = "compare"
        /\ reqs' = Resume(r)
        /\ IF ~comparePassword(r.password, users[r.found].password)
           THEN /\ resp' = Response(r, 401, "Invalid credentials", NoBody)
                /\ UNCHANGED db
           ELSE LET token == generateToken(r.found, users[r.found].email,
                                           users[r.found].username) IN
                /\ issued' = issued \cup {token}
                /\ resp' = Response(r, 200, "", [user |-> r.found, token |-> token])
                /\ UNCHANGED <<users, projects, nextProjectId, members, tasks, nextTaskId,
                               comments, attachments, clients, app, uploads, now>>

\* a day passes
Tick ==
    /\ now < MaxTime
    /\ now' = now + 1
    /\ resp' = NoResp
    /\ UNCHANGED <<users, projects, nextProjectId, members, tasks, nextTaskId, comments,
                   attachments, clients, app, uploads, issued, reqs>>

----------------------------------------------------------------------------
(* authMiddleware and the routes of the requester's own account *)

\* what a client can send after "Bearer ": a token it was given, such a token
\* with another user's id written into it, a token signed with a key of its
\* own, or something that is no token at all
Malformed == [garbage |-> "xyz"]
Tamper(token, id) == [token EXCEPT !.claims.id = id]
PresentedTokens ==
    issued
    \cup {Tamper(t, i) : t \in issued, i \in UserIds}
    \cup {Sign([id |-> i, email |-> users[i].email, username |-> users[i].username,
                exp |-> now + TokenLifetime], "guessed") : i \in UserIds}
    \cup {Malformed}

\* the Authorization header: absent, or a scheme prefix and the rest
Headers ==
    {[prefix |-> Undefined, rest |-> Malformed]}
    \cup {[prefix |-> p, rest |-> t] : p \in {"Bearer ", "Basic "}, t \in PresentedTokens}

NoPayload == [id |-> NoId]

\* jwt.decode: the claims of anything that parses, signature and expiry unchecked
verifyTokenDecodeOnly(token) ==
    IF DOMAIN token = {"claims", "sig"} THEN token.claims ELSE NoPayload

\* jwt.verify inside try/catch: the claims, when the token parses, its signature
\* was made with JWT_SECRET over these claims, and it has not expired
verifyToken(token) ==
    IF /\ DOMAIN token = {"claims", "sig"}
       /\ token.sig = <<JWT_SECRET, token.claims>>
       /\ now < token.claims.exp
    THEN token.claims
    ELSE NoPayload

\* authMiddleware: the 401 it sends, or next() with req.user set to the payload
authMiddleware(header) ==
    IF header.prefix # "Bearer "
    THEN [next |-> FALSE, error |-> "Unauthorized", user |-> NoPayload]
    ELSE IF verifyToken(header.rest) = NoPayload
    THEN [next |-> FALSE, error |-> "Invalid token", user |-> NoPayload]
    ELSE [next |-> TRUE, error |-> "", user |-> verifyToken(header.rest)]

\* select: the fields of a user row that are sent to clients
PublicUser(id) ==
    [id |-> id, email |-> users[id].email, username |-> users[id].username,
     displayName |-> users[id].displayName]

\* GET /api/auth/me
GetMe ==
    \E header \in Headers :
        LET r == [op |-> "getMe", header |-> header]
            auth == authMiddleware(header) IN
        /\ CanAccept
        /\ resp' = IF ~auth.next THEN Response(r, 401, auth.error, NoBody)
                   ELSE IF auth.user.id \notin UserIds
                   THEN Response(r, 404, "User not found", NoBody)
                   ELSE Response(r, 200, "", PublicUser(auth.user.id))
        /\ UNCHANGED <<db, reqs>>

\* PUT /api/auth/profile
UpdateProfile ==
    \E header \in Headers, displayName \in DisplayNameInputs :
        LET r == [op |-> "updateProfile", header |-> header, displayName |-> displayName]
            auth == authMiddleware(header) IN
        /\ CanAccept
        /\ IF ~auth.next
           THEN /\ resp' = Response(r, 401, auth.error, NoBody)
                /\ UNCHANGED users
           ELSE IF auth.user.id \notin UserIds
           THEN /\ resp' = Response(r, 500, "Failed to update profile", NoBody)
                /\ UNCHANGED users
           ELSE /\ users' = [users EXCEPT ![auth.user.id].displayName =
                                 IF displayName = Undefined THEN @ ELSE displayName]
                /\ resp' = Response(r, 200, "", [PublicUser(auth.user.id) EXCEPT !.displayName =
                                 IF displayName = Undefined THEN @ ELSE displayName])
        /\ UNCHANGED <<projects, nextProjectId, members, tasks, nextTaskId, comments,
                       attachments, clients, app, uploads, now, issued, reqs>>

----------------------------------------------------------------------------
(* Writes: the rows a handler builds and the schema's referential rules. *)

\* onDelete: Cascade from Project to ProjectMember and Task, and from Task to
\* Comment and Attachment
CascadeProjectDelete(pid) ==
    LET gone == {t.id : t \in {t \in tasks : t.projectId = pid}}
        keptMembers == {m \in MemberRows : m.projectId # pid}
        keepChild(c) == c.taskId \notin gone
    IN  /\ projects' = {p \in projects : p.id # pid}
        /\ members' = [m \in keptMembers |-> CopiesIn(m, members)]
        /\ tasks' = {t \in tasks : t.projectId # pid}
        /\ comments' = SelectSeq(comments, keepChild)
        /\ attachments' = SelectSeq(attachments, keepChild)

CascadeTaskDelete(tid) ==
    LET keepChild(c) == c.taskId # tid
    IN  /\ tasks' = {t \in tasks : t.id # tid}
        /\ comments' = SelectSeq(comments, keepChild)
        /\ attachments' = SelectSeq(attachments, keepChild)

\* the columns ProjectMember.role, Task.status and Task.priority are strings:
\* the database checks the type of a value, and no list of admitted values
ColumnTypeViolation(value) == value \notin STRING

\* foreign key ProjectMember.projectId -> Project.id, checked at insert
MemberForeignKeyViolation(pid) == ~ProjectExists(pid)

\* a schema without the unique index
NoMemberUniqueIndex(pid, uid) == FALSE

\* unique (projectId, userId) on ProjectMember, checked at insert
MemberUniqueViolation(pid, uid) == IsMember(uid, pid)

\* a schema whose Task.projectId is not checked
NoTaskForeignKey(pid) == FALSE

\* foreign key Task.projectId -> Project.id, checked at insert
TaskForeignKeyViolation(pid) == ~ProjectExists(pid)

\* foreign keys Comment.taskId / Attachment.taskId -> Task.id
ChildForeignKeyViolation(tid) == ~TaskExists(tid)

----------------------------------------------------------------------------
(* POST /api/projects: one nested create, project and owner row together *)

\* a nested create that enrols the creator as an ordinary member
CreateProjectMemberAsMember(pid, uid) == [projectId |-> pid, userId |-> uid, role |-> "member"]

\* members: { create: { userId: req.user!.id, role: "owner" } }
CreateProjectMember(pid, uid) == [projectId |-> pid, userId |-> uid, role |-> "owner"]

\* project.create's data: the color defaults to the primary blue
CreateProjectData(r) ==
    [id |-> nextProjectId,
     name |-> r.name,
     description |-> IF r.description = Undefined THEN Null ELSE r.description,
     color |-> IF Falsy(r.color) THEN "#2563EB" ELSE r.color]

CreateProject ==
    \E u \in UserIds, name \in ProjectNames \cup {Undefined} :
        LET r == [op |-> "createProject", user |-> u, name |-> name,
                  description |-> Undefined, color |-> Undefined] IN
        /\ CanAccept
        /\ nextProjectId <= MaxProjects
        /\ UNCHANGED reqs
        /\ IF name = Undefined
           THEN /\ resp' = Response(r, 400, "Project name is required", NoBody)
                /\ UNCHANGED db
           ELSE LET row == CreateProjectData(r) IN
                /\ projects' = projects \cup {row}
                /\ nextProjectId' = nextProjectId + 1
                /\ members' = members (+) SetToBag({CreateProjectMember(nextProjectId, u)})
                /\ resp' = Response(r, 200, "", row)
                /\ UNCHANGED <<users, tasks, nextTaskId, comments, attachments, clients, app,
                               uploads, now, issued>>

(* GET /api/projects/:id *)

\* the lookup without its membership filter
FindProjectAnyUser(pid, uid) == ProjectExists(pid)

\* findFirst({ where: { id, members: { some: { userId } } } })
FindProjectForUser(pid, uid) == ProjectExists(pid) /\ IsMember(uid, pid)

GetProject ==
    \E u \in UserIds, pid \in ProjectIdInputs :
        LET r == [op |-> "getProject", user |-> u, pid |-> pid] IN
        /\ CanAccept
        /\ resp' = IF FindProjectForUser(pid, u)
                   THEN Response(r, 200, "", CHOOSE p \in projects : p.id = pid)
                   ELSE Response(r, 404, "Project not found", NoBody)
        /\ UNCHANGED <<db, reqs>>

(* PUT /api/projects/:id: updateMany scoped to the member, then an unscoped re-read *)

\* a data object in which a field the body omits is written as null
UpdateProjectDataAllFields(p, r) ==
    [p EXCEPT !.name = r.name,
              !.description = IF r.description = Undefined THEN Null ELSE r.description,
              !.color = IF r.color = Undefined THEN Null ELSE r.color]

\* updateMany's data { name, description, color }: Prisma leaves a column alone
\* whose value is undefined
UpdateProjectData(p, r) ==
    [p EXCEPT !.name = IF r.name = Undefined THEN @ ELSE r.name,
              !.description = IF r.description = Undefined THEN @ ELSE r.description,
              !.color = IF r.color = Undefined THEN @ ELSE r.color]

\* bodies of PUT /api/projects/:id sent while the whole API is in use, and
\* those of the project's settings screen
UpdateProjectBodies ==
    [name : ProjectNames \cup {Undefined}, description : {Undefined}, color : {Undefined}]
SettingsBodies ==
    [name : {Undefined, "Relaunch"}, description : {Undefined, Null, "plan"},
     color : {Undefined, "#10B981"}]

UpdateProjectWriteOf(bodies) ==
    \E u \in UserIds, pid \in ProjectIdInputs, b \in bodies :
        LET r == [op |-> "updateProject", user |-> u, pid |-> pid, name |-> b.name,
                  description |-> b.description, color |-> b.color, pc |-> "updateMany"] IN
        /\ CanAccept
        /\ IF FindProjectForUser(pid, u)
           THEN /\ projects' = {IF p.id = pid THEN UpdateProjectData(p, r) ELSE p : p \in projects}
                /\ reqs' = Suspend(r, "reread")
                /\ resp' = NoResp
           ELSE /\ resp' = Response(r, 404, "Project not found", NoBody)
                /\ UNCHANGED <<projects, reqs>>
        /\ UNCHANGED <<users, nextProjectId, members, tasks, nextTaskId, comments, attachments,
                       clients, app, uploads, now, issued>>

UpdateProjectWrite == UpdateProjectWriteOf(UpdateProjectBodies)

SettingsUpdateProject == UpdateProjectWriteOf(SettingsBodies)

UpdateProjectReread ==
    \E r \in InFlight :
        /\ r.op = "updateProject" /\ r.pc = "reread"
        /\ reqs' = Resume(r)
        /\ resp' = Response(r, 200, "",
                            IF ProjectExists(r.pid) THEN CHOOSE p \in projects : p.id = r.pid
                            ELSE NoBody)
        /\ UNCHANGED db

(* DELETE /api/projects/:id *)

\* the lookup without its role filter
FindOwnerMembershipAnyRole(pid, uid) ==
    \E m \in MemberRows : m.projectId = pid /\ m.userId = uid

\* projectMember.findFirst({ where: { projectId, userId, role: "owner" } })
FindOwnerMembership(pid, uid) ==
    \E m \in MemberRows : m.projectId = pid /\ m.userId = uid /\ m.role = "owner"

\* the status sent when no owner membership is found
DeleteProjectDeniedStatus == 403

DeleteProjectCheck ==
    \E u \in UserIds, pid \in ProjectIdInputs :
        LET r == [op |-> "deleteProject", user |-> u, pid |-> pid, pc |-> "findOwner"] IN
        /\ CanAccept
        /\ IF FindOwnerMembership(pid, u)
           THEN /\ reqs' = Suspend(r, "delete")
                /\ resp' = NoResp
           ELSE /\ resp' = Response(r, DeleteProjectDeniedStatus, "Only owner can delete project", NoBody)
                /\ UNCHANGED reqs
        /\ UNCHANGED db

DeleteProjectDelete ==
    \E r \in InFlight :
        /\ r.op = "deleteProject" /\ r.pc = "delete"
        /\ reqs' = Resume(r)
        /\ IF ProjectExists(r.pid)
           THEN /\ CascadeProjectDelete(r.pid)
                /\ resp' = Response(r, 200, "", NoBody)
                /\ UNCHANGED <<users, nextProjectId, nextTaskId, clients, app, uploads, now, issued>>
           ELSE /\ resp' = Response(r, 500, "Failed to delete project", NoBody)
                /\ UNCHANGED db

(* POST /api/projects/:id/members *)

AddMemberFindUser ==
    \E u \in UserIds, pid \in ProjectIdInputs, email \in Emails, role \in RoleInputs :
        LET target == FindUserByEmail(email)
            r == [op |-> "addMember", user |-> u, pid |-> pid, email |-> email, role |-> role,
                  target |-> target, pc |-> "findUser"] IN
        /\ CanAccept
        /\ IF target = NoId
           THEN /\ resp' = Response(r, 404, "User not found", NoBody)
                /\ UNCHANGED reqs
           ELSE /\ reqs' = Suspend(r, "checkMember")
                /\ resp' = NoResp
        /\ UNCHANGED db

\* projectMember.findFirst({ where: { projectId, userId: user.id } })
FindExistingMember(pid, uid) == IsMember(uid, pid)

AddMemberCheckExisting ==
    \E r \in InFlight :
        /\ r.op = "addMember" /\ r.pc = "checkMember"
        /\ IF FindExistingMember(r.pid, r.target)
           THEN /\ resp' = Response(r, 400, "User is already a member", NoBody)
                /\ reqs' = Resume(r)
           ELSE /\ reqs' = Move(r, "create")
                /\ resp' = NoResp
        /\ UNCHANGED db

\* the row with the requested role dropped
AddMemberDataFixedRole(r) == [projectId |-> r.pid, userId |-> r.target, role |-> "member"]

\* data: { projectId, userId: user.id, role: role || "member" }
AddMemberData(r) ==
    [projectId |-> r.pid, userId |-> r.target,
     role |-> IF r.role = Undefined THEN "member" ELSE r.role]

\* an insert that replaces the memberships the project has
CreateMemberRowReplacing(row) ==
    LET kept == {m \in MemberRows : m.projectId # row.projectId}
    IN  [m \in kept |-> CopiesIn(m, members)] (+) SetToBag({row})

\* projectMember.create adds one row
CreateMemberRow(row) == members (+) SetToBag({row})

AddMemberCreate ==
    \E r \in InFlight :
        /\ r.op = "addMember" /\ r.pc = "create"
        /\ reqs' = Resume(r)
        /\ IF \/ MemberForeignKeyViolation(r.pid)
              \/ MemberUniqueViolation(r.pid, r.target)
              \/ ColumnTypeViolation(AddMemberData(r).role)
           THEN /\ resp' = Response(r, 500, "Failed to add member", NoBody)
                /\ UNCHANGED db
           ELSE /\ members' = CreateMemberRow(AddMemberData(r))
                /\ resp' = Response(r, 200, "", AddMemberData(r))
                /\ UNCHANGED <<users, projects, nextProjectId, tasks, nextTaskId,
                               comments, attachments, clients, app, uploads, now, issued>>

----------------------------------------------------------------------------
(* POST /api/tasks *)

\* new Date(iso): the instant an ISO date names
NewDate(iso) == iso \o "T00:00:00.000Z"

\* dueDate ? new Date(dueDate) : null
DueDateColumn(dueDate) == IF Falsy(dueDate) THEN Null ELSE NewDate(dueDate)

CreateTaskFindProjectOf(bodies) ==
    \E u \in UserIds, pid \in ProjectIdInputs, b \in bodies :
        LET r == [op |-> "createTask", user |-> u, pid |-> pid, title |-> b.title,
                  description |-> b.description, status |-> b.status,
                  priority |-> b.priority, dueDate |-> b.dueDate,
                  assigneeId |-> b.assigneeId, author |-> b.author,
                  pc |-> "findProject"] IN
        /\ CanAccept
        /\ nextTaskId <= MaxTasks
        /\ IF Falsy(b.title)
           THEN /\ resp' = Response(r, 400, "Title and project are required", NoBody)
                /\ UNCHANGED reqs
           ELSE IF ~FindProjectForUser(pid, u)
           THEN /\ resp' = Response(r, 404, "Project not found", NoBody)
                /\ UNCHANGED reqs
           ELSE /\ reqs' = Suspend(r, "create")
                /\ resp' = NoResp
        /\ UNCHANGED db

CreateTaskFindProject == CreateTaskFindProjectOf(CreateTaskBodies)

EditorCreateTask == CreateTaskFindProjectOf(EditorCreateBodies)

\* the row with its creator taken from the body when the body names one
CreateTaskDataFromBody(r) ==
    [id |-> nextTaskId,
     title |-> r.title,
     description |-> IF r.description = Undefined THEN Null ELSE r.description,
     projectId |-> r.pid,
     status |-> IF Falsy(r.status) THEN "todo" ELSE r.status,
     priority |-> IF Falsy(r.priority) THEN "medium" ELSE r.priority,
     dueDate |-> DueDateColumn(r.dueDate),
     assigneeId |-> IF r.assigneeId = Absent THEN NoId ELSE r.assigneeId,
     creatorId |-> IF r.author # 0 THEN r.author ELSE r.user]

\* task.create's data: defaults for status and priority, creator from the token
CreateTaskData(r) ==
    [id |-> nextTaskId,
     title |-> r.title,
     description |-> IF r.description = Undefined THEN Null ELSE r.description,
     projectId |-> r.pid,
     status |-> IF Falsy(r.status) THEN "todo" ELSE r.status,
     priority |-> IF Falsy(r.priority) THEN "medium" ELSE r.priority,
     dueDate |-> DueDateColumn(r.dueDate),
     assigneeId |-> IF r.assigneeId = Absent THEN NoId ELSE r.assigneeId,
     creatorId |-> r.user]

CreateTaskCreate ==
    \E r \in InFlight :
        /\ r.op = "createTask" /\ r.pc = "create"
        /\ reqs' = Resume(r)
        /\ IF \/ TaskForeignKeyViolation(r.pid)
              \/ ColumnTypeViolation(CreateTaskData(r).status)
              \/ ColumnTypeViolation(CreateTaskData(r).priority)
           THEN /\ resp' = Response(r, 500, "Failed to create task", NoBody)
                /\ UNCHANGED db
           ELSE /\ tasks' = tasks \cup {CreateTaskData(r)}
                /\ nextTaskId' = nextTaskId + 1
                /\ resp' = Response(r, 200, "", CreateTaskData(r))
                /\ UNCHANGED <<users, projects, nextProjectId, members, comments, attachments, clients, app, uploads, now, issued>>

(* GET /api/tasks/:id *)

\* the lookup without its membership filter
FindTaskAnyUser(tid, uid) == TaskExists(tid)

\* findFirst({ where: { id, project: { members: { some: { userId } } } } })
FindTaskForUser(tid, uid) == TaskExists(tid) /\ IsMember(uid, TaskById(tid).projectId)

GetTask ==
    \E u \in UserIds, tid \in TaskIdInputs :
        LET r == [op |-> "getTask", user |-> u, tid |-> tid] IN
        /\ CanAccept
        /\ resp' = IF FindTaskForUser(tid, u)
                   THEN Response(r, 200, "", TaskById(tid))
                   ELSE Response(r, 404, "Task not found", NoBody)
        /\ UNCHANGED <<db, reqs>>

(* PUT /api/tasks/:id: updateMany scoped to the member, then an unscoped re-read *)

\* a data object that spreads dueDate like the creation does, present or not
UpdateTaskDataAlwaysDueDate(t, r) ==
    [t EXCEPT !.title = IF r.title = Undefined THEN @ ELSE r.title,
              !.description = IF r.description = Undefined THEN @ ELSE r.description,
              !.status = IF r.status = Undefined THEN @ ELSE r.status,
              !.priority = IF r.priority = Undefined THEN @ ELSE r.priority,
              !.dueDate = DueDateColumn(r.dueDate),
              !.assigneeId = IF r.assigneeId = Absent THEN @ ELSE r.assigneeId]

\* a data object that takes every field the body carries
UpdateTaskDataWholeBody(t, r) ==
    [t EXCEPT !.title = IF r.title = Undefined THEN @ ELSE r.title,
              !.description = IF r.description = Undefined THEN @ ELSE r.description,
              !.status = IF r.status = Undefined THEN @ ELSE r.status,
              !.priority = IF r.priority = Undefined THEN @ ELSE r.priority,
              !.dueDate = IF r.dueDate = Undefined THEN @ ELSE DueDateColumn(r.dueDate),
              !.assigneeId = IF r.assigneeId = Absent THEN @ ELSE r.assigneeId,
              !.projectId = IF r.projectId = Absent THEN @ ELSE r.projectId,
              !.creatorId = IF r.creatorId = Absent THEN @ ELSE r.creatorId]

\* updateMany's data: ...(field !== undefined && { field }) for each of the six fields
UpdateTaskData(t, r) ==
    [t EXCEPT !.title = IF r.title = Undefined THEN @ ELSE r.title,
              !.description = IF r.description = Undefined THEN @ ELSE r.description,
              !.status = IF r.status = Undefined THEN @ ELSE r.status,
              !.priority = IF r.priority = Undefined THEN @ ELSE r.priority,
              !.dueDate = IF r.dueDate = Undefined THEN @ ELSE DueDateColumn(r.dueDate),
              !.assigneeId = IF r.assigneeId = Absent THEN @ ELSE r.assigneeId]

UpdateTaskWriteOf(bodies) ==
    \E u \in UserIds, tid \in TaskIdInputs, b \in bodies :
        LET r == [op |-> "updateTask", user |-> u, tid |-> tid, title |-> b.title,
                  description |-> b.description, status |-> b.status,
                  priority |-> b.priority, dueDate |-> b.dueDate,
                  assigneeId |-> b.assigneeId, projectId |-> b.projectId,
                  creatorId |-> b.creatorId, pc |-> "updateMany"] IN
        /\ CanAccept
        /\ IF FindTaskForUser(tid, u)
           THEN /\ tasks' = {IF t.id = tid THEN UpdateTaskData(t, r) ELSE t : t \in tasks}
                /\ reqs' = Suspend(r, "reread")
                /\ resp' = NoResp
           ELSE /\ resp' = Response(r, 404, "Task not found", NoBody)
                /\ UNCHANGED <<tasks, reqs>>
        /\ UNCHANGED <<users, projects, nextProjectId, members, nextTaskId, comments, attachments,
                       clients, app, uploads, now, issued>>

UpdateTaskWrite == UpdateTaskWriteOf(UpdateTaskBodies)

EditorUpdateTask == UpdateTaskWriteOf(EditorUpdateBodies)

TransferUpdateTask == UpdateTaskWriteOf(TransferBodies)

UpdateTaskReread ==
    \E r \in InFlight :
        /\ r.op = "updateTask" /\ r.pc = "reread"
        /\ reqs' = Resume(r)
        /\ resp' = Response(r, 200, "", IF TaskExists(r.tid) THEN TaskById(r.tid) ELSE NoBody)
        /\ UNCHANGED db

(* DELETE /api/tasks/:id *)

DeleteTaskFind ==
    \E u \in UserIds, tid \in TaskIdInputs :
        LET r == [op |-> "deleteTask", user |-> u, tid |-> tid, pc |-> "findTask"] IN
        /\ CanAccept
        /\ IF FindTaskForUser(tid, u)
           THEN /\ reqs' = Suspend(r, "delete")
                /\ resp' = NoResp
           ELSE /\ resp' = Response(r, 404, "Task not found", NoBody)
                /\ UNCHANGED reqs
        /\ UNCHANGED db

DeleteTaskDelete ==
    \E r \in InFlight :
        /\ r.op = "deleteTask" /\ r.pc = "delete"
        /\ reqs' = Resume(r)
        /\ IF TaskExists(r.tid)
           THEN /\ CascadeTaskDelete(r.tid)
                /\ resp' = Response(r, 200, "", NoBody)
                /\ UNCHANGED <<users, projects, nextProjectId, members, nextTaskId, clients, app, uploads, now, issued>>
           ELSE /\ resp' = Response(r, 500, "Failed to delete task", NoBody)
                /\ UNCHANGED db

(* POST /api/tasks/:id/comments *)

\* a check that lets the empty string pass
ContentMissingOnlyUndefined(content) == content = Undefined

\* !content
ContentMissing(content) == Falsy(content)

CreateCommentFindTaskOf(limit, contents) ==
    \E u \in UserIds, tid \in TaskIdInputs, content \in contents, author \in AuthorInputs :
        LET r == [op |-> "createComment", user |-> u, tid |-> tid, content |-> content,
                  author |-> author, pc |-> "findTask"] IN
        /\ CanAccept
        /\ Len(comments) < limit
        /\ IF ContentMissing(content)
           THEN /\ resp' = Response(r, 400, "Content is required", NoBody)
                /\ UNCHANGED reqs
           ELSE IF ~FindTaskForUser(tid, u)
           THEN /\ resp' = Response(r, 404, "Task not found", NoBody)
                /\ UNCHANGED reqs
           ELSE /\ reqs' = Suspend(r, "create")
                /\ resp' = NoResp
        /\ UNCHANGED db

CreateCommentFindTask == CreateCommentFindTaskOf(MaxComments, ContentInputs)

\* the same in a task's discussion, which holds more than one comment
ThreadCreateComment == CreateCommentFindTaskOf(MaxThread, ThreadContents)

\* comment.create's data
CreateCommentData(r) == [content |-> r.content, taskId |-> r.tid, userId |-> r.user]

\* an insert that takes the place of the comments stored before
CreateCommentRowReplacing(row) == <<row>>

\* comment.create adds one row
CreateCommentRow(row) == Append(comments, row)

CreateCommentCreate ==
    \E r \in InFlight :
        /\ r.op = "createComment" /\ r.pc = "create"
        /\ reqs' = Resume(r)
        /\ IF ChildForeignKeyViolation(r.tid)
           THEN /\ resp' = Response(r, 500, "Failed to create comment", NoBody)
                /\ UNCHANGED db
           ELSE /\ comments' = CreateCommentRow(CreateCommentData(r))
                /\ resp' = Response(r, 200, "", CreateCommentData(r))
                /\ UNCHANGED <<users, projects, nextProjectId, members, tasks, nextTaskId,
                               attachments, clients, app, uploads, now, issued>>

(* POST /api/tasks/:id/attachments *)

\* multer's filename: a fresh suffix and the original name
StoredName(file) == [suffix |-> Cardinality(uploads) + 1, name |-> file]

\* upload.single("file") writes the file, then the handler runs up to its lookup
CreateAttachmentFindTask ==
    \E u \in UserIds, tid \in TaskIdInputs, file \in FileInputs, author \in AuthorInputs :
        LET r == [op |-> "createAttachment", user |-> u, tid |-> tid, file |-> file,
                  stored |-> StoredName(file), author |-> author, pc |-> "findTask"] IN
        /\ CanAccept
        /\ Len(attachments) < MaxAttachments
        /\ Cardinality(uploads) < MaxUploads
        /\ uploads' = IF file = Undefined THEN uploads ELSE uploads \cup {r.stored}
        /\ IF file = Undefined
           THEN /\ resp' = Response(r, 400, "File is required", NoBody)
                /\ UNCHANGED reqs
           ELSE IF ~FindTaskForUser(tid, u)
           THEN /\ resp' = Response(r, 404, "Task not found", NoBody)
                /\ UNCHANGED reqs
           ELSE /\ reqs' = Suspend(r, "create")
                /\ resp' = NoResp
        /\ UNCHANGED <<users, projects, nextProjectId, members, tasks, nextTaskId, comments,
                       attachments, clients, app, now, issued>>

\* attachment.create's data
CreateAttachmentData(r) ==
    [filename |-> r.file, url |-> r.stored, taskId |-> r.tid, uploaderId |-> r.user]

CreateAttachmentCreate ==
    \E r \in InFlight :
        /\ r.op = "createAttachment" /\ r.pc = "create"
        /\ reqs' = Resume(r)
        /\ IF ChildForeignKeyViolation(r.tid)
           THEN /\ resp' = Response(r, 500, "Failed to upload attachment", NoBody)
                /\ UNCHANGED db
           ELSE /\ attachments' = Append(attachments, CreateAttachmentData(r))
                /\ resp' = Response(r, 200, "", CreateAttachmentData(r))
                /\ UNCHANGED <<users, projects, nextProjectId, members, tasks, nextTaskId,
                               comments, clients, app, uploads, now, issued>>

(* GET /uploads/<stored name>: no authMiddleware on this route *)

\* paths a client asks for
UploadPaths == {[suffix |-> n, name |-> f] : n \in 1..MaxUploads, f \in FileInputs \ {Undefined}}

\* user: the requester, NoId when the request carries no token
ServeUpload ==
    \E u \in UserIds \cup {NoId}, path \in UploadPaths :
        LET r == [op |-> "serveUpload", user |-> u, path |-> path] IN
        /\ CanAccept
        /\ resp' = IF path \in uploads
                   THEN Response(r, 200, "", [file |-> path])
                   ELSE Response(r, 404, "File not found", NoBody)
        /\ UNCHANGED <<db, reqs>>

----------------------------------------------------------------------------
(* GET /api/projects, GET /api/tasks, GET /api/team *)

\* project.findMany({ where: { members: { some: { userId } } } })
FindProjectsForUser(uid) == {p \in projects : IsMember(uid, p.id)}

ListProjects ==
    \E u \in UserIds :
        LET r == [op |-> "listProjects", user |-> u] IN
        /\ CanAccept
        /\ resp' = Response(r, 200, "", FindProjectsForUser(u))
        /\ UNCHANGED <<db, reqs>>

\* query strings of GET /api/tasks
TaskQueries ==
    [projectId : {Absent} \cup ProjectIdInputs, status : {Undefined, "completed"},
     priority : {Undefined, "high"}, assigneeId : {Absent} \cup UserIds]

\* a filter on the project that replaces the membership condition
FindTasksProjectFilterFirst(uid, q) ==
    {t \in tasks :
        /\ IF q.projectId = Absent THEN IsMember(uid, t.projectId) ELSE t.projectId = q.projectId
        /\ Falsy(q.status) \/ t.status = q.status
        /\ Falsy(q.priority) \/ t.priority = q.priority
        /\ q.assigneeId = Absent \/ t.assigneeId = q.assigneeId}

\* task.findMany: the membership condition, and one more condition for every
\* query parameter that is given
FindTasksForUser(uid, q) ==
    {t \in tasks :
        /\ IsMember(uid, t.projectId)
        /\ q.projectId = Absent \/ t.projectId = q.projectId
        /\ Falsy(q.status) \/ t.status = q.status
        /\ Falsy(q.priority) \/ t.priority = q.priority
        /\ q.assigneeId = Absent \/ t.assigneeId = q.assigneeId}

ListTasks ==
    \E u \in UserIds, q \in TaskQueries :
        LET r == [op |-> "listTasks", user |-> u, query |-> q] IN
        /\ CanAccept
        /\ resp' = Response(r, 200, "", FindTasksForUser(u, q))
        /\ UNCHANGED <<db, reqs>>

\* a lookup of the requester's projects that keeps the ones the requester owns
FindOwnedProjectIds(uid) == {m.projectId : m \in {m \in MemberRows : m.userId = uid /\ m.role = "owner"}}

\* projectMember.findMany({ where: { userId }, select: { projectId } })
FindProjectIds(uid) == {m.projectId : m \in {m \in MemberRows : m.userId = uid}}

\* user.findMany({ where: { projects: { some: { projectId: { in: projectIds } } } } })
FindUsersInProjects(projectIds) ==
    {i \in UserIds : \E m \in MemberRows : m.userId = i /\ m.projectId \in projectIds}

GetTeamFindProjects ==
    \E u \in UserIds :
        LET r == [op |-> "getTeam", user |-> u, projectIds |-> FindProjectIds(u),
                  pc |-> "findProjects"] IN
        /\ CanAccept
        /\ reqs' = Suspend(r, "findUsers")
        /\ resp' = NoResp
        /\ UNCHANGED db

GetTeamFindUsers ==
    \E r \in InFlight :
        /\ r.op = "getTeam" /\ r.pc = "findUsers"
        /\ reqs' = Resume(r)
        /\ resp' = Response(r, 200, "", FindUsersInProjects(r.projectIds))
        /\ UNCHANGED db

----------------------------------------------------------------------------
(* The mobile client: AuthProvider (lib/auth-context.tsx) and the root      *)
(* navigator.  `app` holds the provider's React state, the two AsyncStorage *)
(* items, the query cache and the position of the provider's running call.  *)

\* JavaScript's null in the client's state and an absent AsyncStorage item
Nil == [nil |-> TRUE]

\* JSON.stringify of a user object and JSON.parse of a stored item
Stringify(user) == [json |-> user]
Parse(item) == item.json

\* the call finished: it returned, or its promise was rejected
Returned(op) == [op |-> op, pc |-> "returned"]
Threw(op) == [op |-> op, pc |-> "threw"]
Settled == app.call.pc \in {"returned", "threw"}

\* useState(null), useState(null), useState(true); the mount effect calls loadStoredAuth
Mounted(storage, launches) ==
    [token |-> Nil, user |-> Nil, isLoading |-> TRUE, storage |-> storage, cache |-> {},
     launches |-> launches, call |-> [op |-> "loadStoredAuth", pc |-> "getItem"]]

\* first start of the app on a device: nothing stored
ColdStart == Mounted([token |-> Nil, user |-> Nil], 1)

\* a context value that looks at the token alone
isAuthenticatedTokenOnly(a) == a.token # Nil

\* isAuthenticated: !!token && !!user
isAuthenticated(a) == a.token # Nil /\ a.user # Nil

\* RootStackNavigator: the spinner while loading, else the screens of the stack
Screens(a) ==
    IF a.isLoading THEN {}
    ELSE IF isAuthenticated(a)
    THEN {"Main", "TaskDetail", "ProjectDetail", "CreateModal", "TaskChat"}
    ELSE {"Auth"}

\* one setState call (or queryClient.clear()) applied to the state
SetState(a, update) ==
    IF update.field = "token" THEN [a EXCEPT !.token = update.value]
    ELSE IF update.field = "user" THEN [a EXCEPT !.user = update.value]
    ELSE IF update.field = "isLoading" THEN [a EXCEPT !.isLoading = update.value]
    ELSE [a EXCEPT !.cache = update.value]

RECURSIVE SetStates(_, _)
SetStates(a, updates) ==
    IF updates = <<>> THEN a ELSE SetStates(SetState(a, Head(updates)), Tail(updates))

\* the synchronous tail of a call: React renders once for all its setState
\* calls when it batches them, and after each of them when it does not
Continue(a, op, updates, batched) ==
    IF batched \/ Len(updates) <= 1
    THEN [SetStates(a, updates) EXCEPT !.call = Returned(op)]
    ELSE [SetState(a, Head(updates)) EXCEPT
              !.call = [op |-> op, pc |-> "render", pending |-> Tail(updates)]]

server == <<users, projects, nextProjectId, members, tasks, nextTaskId, comments, attachments,
            reqs, clients, uploads, now, issued, resp>>

\* the user closes the app and starts it again: the state is lost, the storage kept
Launch ==
    /\ app.launches < MaxLaunches
    /\ app' = Mounted(app.storage, app.launches + 1)
    /\ UNCHANGED server

\* loadStoredAuth: the two getItem calls settle, then try, catch and finally run
LoadStoredAuth ==
    /\ app.call = [op |-> "loadStoredAuth", pc |-> "getItem"]
    /\ \E readOk \in BOOLEAN, batched \in BOOLEAN :
           LET found == readOk /\ app.storage.token # Nil /\ app.storage.user # Nil
               updates == IF found
                          THEN << [field |-> "token", value |-> app.storage.token],
                                  [field |-> "user", value |-> Parse(app.storage.user)],
                                  [field |-> "isLoading", value |-> FALSE] >>
                          ELSE << [field |-> "isLoading", value |-> FALSE] >>
           IN  app' = Continue(app, "loadStoredAuth", updates, batched)
    /\ UNCHANGED server

\* React renders after the next setState call of a call that is not batched
Render ==
    /\ app.call.pc = "render"
    /\ app' = Continue(app, app.call.op, app.call.pending, FALSE)
    /\ UNCHANGED server

\* apiRequest resolves with the response of a 2xx answer and rejects otherwise
Rejected == [rejected |-> TRUE]
ApiAnswers ==
    {Rejected}
    \cup {[token |-> generateToken(i, users[i].email, users[i].username),
           user |-> PublicUser(i)] : i \in UserIds}

\* login and register up to their second await: apiRequest and response.json()
AuthRequest ==
    /\ Settled
    /\ "Auth" \in Screens(app)
    /\ \E op \in {"login", "register"}, answer \in ApiAnswers :
           app' = IF answer = Rejected
                  THEN [app EXCEPT !.call = Threw(op)]
                  ELSE [app EXCEPT !.call = [op |-> op, pc |-> "setItem", data |-> answer]]
    /\ UNCHANGED server

\* the two setItem calls settle, each on its own; setToken and setUser run
\* when both were written
AuthPersist ==
    /\ app.call.pc = "setItem"
    /\ \E tokenOk \in BOOLEAN, userOk \in BOOLEAN, batched \in BOOLEAN :
           LET data == app.call.data
               stored == [token |-> IF tokenOk THEN data.token ELSE app.storage.token,
                          user |-> IF userOk THEN Stringify(data.user) ELSE app.storage.user]
               written == [app EXCEPT !.storage = stored]
           IN  app' = IF tokenOk /\ userOk
                      THEN Continue(written, app.call.op,
                                    << [field |-> "token", value |-> data.token],
                                       [field |-> "user", value |-> data.user] >>, batched)
                      ELSE [written EXCEPT !.call = Threw(app.call.op)]
    /\ UNCHANGED server

\* logout: the two removeItem calls settle, then setToken(null), setUser(null)
\* and queryClient.clear() run
Logout ==
    /\ Settled
    /\ "Main" \in Screens(app)
    /\ \E tokenOk \in BOOLEAN, userOk \in BOOLEAN, batched \in BOOLEAN :
           LET stored == [token |-> IF tokenOk THEN Nil ELSE app.storage.token,
                          user |-> IF userOk THEN Nil ELSE app.storage.user]
               removed == [app EXCEPT !.storage = stored]
           IN  app' = IF tokenOk /\ userOk
                      THEN Continue(removed, "logout",
                                    << [field |-> "token", value |-> Nil],
                                       [field |-> "user", value |-> Nil],
                                       [field |-> "cache", value |-> {}] >>, batched)
                      ELSE [removed EXCEPT !.call = Threw("logout")]
    /\ UNCHANGED server

\* updateUser: merges the updates into the user and writes the item without
\* awaiting the write
UpdateUser ==
    /\ Settled
    /\ "Main" \in Screens(app)
    /\ \E displayName \in DisplayNameInputs \ {Undefined}, writeOk \in BOOLEAN :
           LET updated == [app.user EXCEPT !.displayName = displayName] IN
           app' = [app EXCEPT !.user = updated,
                              !.storage.user = IF writeOk THEN Stringify(updated) ELSE @,
                              !.call = Returned("updateUser")]
    /\ UNCHANGED server

\* a screen's useQuery stores the data it fetched for the user in the query cache
FetchQuery ==
    /\ Settled
    /\ "Main" \in Screens(app)
    /\ app' = [app EXCEPT !.cache = @ \cup {app.user.id}]
    /\ UNCHANGED server

----------------------------------------------------------------------------
EmptyDatabase ==
    /\ users = <<>>
    /\ projects = {}
    /\ nextProjectId = 1
    /\ members = EmptyBag
    /\ tasks = {}
    /\ nextTaskId = 1
    /\ comments = <<>>
    /\ attachments = <<>>
    /\ uploads = {}
    /\ now = 0
    /\ issued = {}

\* the rows and tokens of alice and bob, who registered on day 0
TeamUsers ==
    /\ users = << [email |-> "a@x", username |-> "alice",
                   password |-> hashPassword("pw1"), displayName |-> "alice"],
                  [email |-> "b@x", username |-> "bob",
                   password |-> hashPassword("pw2"), displayName |-> "bob"] >>
    /\ now = 0
    /\ issued = {generateToken(1, "a@x", "alice"), generateToken(2, "b@x", "bob")}

\* a database in which alice and bob have registered (SpecAuth reaches it) and
\* nothing else exists yet
TeamDatabase ==
    /\ TeamUsers
    /\ projects = {}
    /\ nextProjectId = 1
    /\ members = EmptyBag
    /\ tasks = {}
    /\ nextTaskId = 1
    /\ comments = <<>>
    /\ attachments = <<>>
    /\ uploads = {}

\* the team's database after alice created the project "Launch" (Spec reaches it)
LaunchDatabase ==
    /\ TeamUsers
    /\ projects = {[id |-> 1, name |-> "Launch", description |-> Null, color |-> "#2563EB"]}
    /\ nextProjectId = 2
    /\ members = SetToBag({CreateProjectMember(1, 1)})
    /\ tasks = {}
    /\ nextTaskId = 1
    /\ comments = <<>>
    /\ attachments = <<>>
    /\ uploads = {}

\* alice's project after she invited bob and created a task (SpecRace reaches it)
BoardDatabase ==
    /\ TeamUsers
    /\ projects = {[id |-> 1, name |-> "Launch", description |-> Null, color |-> "#2563EB"]}
    /\ nextProjectId = 2
    /\ members = SetToBag({CreateProjectMember(1, 1),
                           [projectId |-> 1, userId |-> 2, role |-> "member"]})
    /\ tasks = {[id |-> 1, title |-> "Write docs", description |-> Null, projectId |-> 1,
                 status |-> "todo", priority |-> "medium", dueDate |-> Null,
                 assigneeId |-> NoId, creatorId |-> 1]}
    /\ nextTaskId = 2
    /\ comments = <<>>
    /\ attachments = <<>>
    /\ uploads = {}

\* a database with three users and two projects: alice owns project 1, carol
\* owns project 2, bob has no membership; each project has one task
WorkspaceDatabase ==
    /\ users = << [email |-> "a@x", username |-> "alice",
                   password |-> hashPassword("pw1"), displayName |-> "alice"],
                  [email |-> "b@x", username |-> "bob",
                   password |-> hashPassword("pw2"), displayName |-> "bob"],
                  [email |-> "carol@x", username |-> "carol",
                   password |-> hashPassword("pw1"), displayName |-> "carol"] >>
    /\ now = 0
    /\ issued = {generateToken(1, "a@x", "alice"), generateToken(2, "b@x", "bob"),
                 generateToken(3, "carol@x", "carol")}
    /\ projects = {[id |-> 1, name |-> "Launch", description |-> Null, color |-> "#2563EB"],
                   [id |-> 2, name |-> "Launch", description |-> Null, color |-> "#2563EB"]}
    /\ nextProjectId = 3
    /\ members = SetToBag({CreateProjectMember(1, 1), CreateProjectMember(2, 3)})
    /\ tasks = {[id |-> 1, title |-> "Write docs", description |-> Null, projectId |-> 1,
                 status |-> "todo", priority |-> "medium", dueDate |-> Null,
                 assigneeId |-> NoId, creatorId |-> 1],
                [id |-> 2, title |-> "Write docs", description |-> Null, projectId |-> 2,
                 status |-> "completed", priority |-> "high", dueDate |-> Null,
                 assigneeId |-> NoId, creatorId |-> 3]}
    /\ nextTaskId = 3
    /\ comments = <<>>
    /\ attachments = <<>>
    /\ uploads = {}

\* server start on an empty database, clients sending requests in parallel
Init == EmptyDatabase /\ reqs = EmptyBag /\ resp = NoResp /\ clients = MaxClients /\ app = ColdStart

\* server start on the team's database, clients sending requests in parallel
InitTeam == TeamDatabase /\ reqs = EmptyBag /\ resp = NoResp /\ clients = MaxClients /\ app = ColdStart

\* server start on the team's database, one client that awaits every response
InitSerial == TeamDatabase /\ reqs = EmptyBag /\ resp = NoResp /\ clients = 1 /\ app = ColdStart

\* server start on the database with alice's project, one client: the task editor
InitEditor == LaunchDatabase /\ reqs = EmptyBag /\ resp = NoResp /\ clients = 1 /\ app = ColdStart

\* server start on the database with alice's and bob's task, clients sending
\* requests in parallel
InitBoard == BoardDatabase /\ reqs = EmptyBag /\ resp = NoResp /\ clients = MaxClients /\ app = ColdStart

\* server start on the database with two projects, one client that awaits every response
InitWorkspace == WorkspaceDatabase /\ reqs = EmptyBag /\ resp = NoResp /\ clients = 1 /\ app = ColdStart

AuthNext ==
    \/ RegisterCheckEmail
    \/ RegisterCheckUsername
    \/ RegisterCreate

\* logins, the passing of time, and the routes of the requester's own account
AccountNext ==
    \/ LoginFindUser
    \/ LoginCompare
    \/ Tick
    \/ GetMe
    \/ UpdateProfile

MemberNext ==
    \/ CreateProject
    \/ DeleteProjectCheck
    \/ DeleteProjectDelete
    \/ AddMemberFindUser
    \/ AddMemberCheckExisting
    \/ AddMemberCreate

ProjectNext ==
    \/ GetProject
    \/ UpdateProjectWrite
    \/ UpdateProjectReread

TaskNext ==
    \/ CreateTaskFindProject
    \/ CreateTaskCreate
    \/ GetTask
    \/ UpdateTaskWrite
    \/ UpdateTaskReread
    \/ DeleteTaskFind
    \/ DeleteTaskDelete

\* the project's settings screen while members are invited and tasks created
SettingsNext ==
    \/ SettingsUpdateProject
    \/ UpdateProjectReread
    \/ GetProject
    \/ AddMemberFindUser
    \/ AddMemberCheckExisting
    \/ AddMemberCreate
    \/ CreateTaskFindProject
    \/ CreateTaskCreate

\* a task's discussion: comments and attachments while the task is edited and
\* the task or its project deleted
ThreadNext ==
    \/ CreateTaskFindProject
    \/ CreateTaskCreate
    \/ UpdateTaskWrite
    \/ UpdateTaskReread
    \/ ThreadCreateComment
    \/ CreateCommentCreate
    \/ CreateAttachmentFindTask
    \/ CreateAttachmentCreate
    \/ DeleteTaskFind
    \/ DeleteTaskDelete
    \/ DeleteProjectCheck
    \/ DeleteProjectDelete

\* updates of a task against deletions of the task and of its project
BoardNext ==
    \/ GetTask
    \/ UpdateTaskWrite
    \/ UpdateTaskReread
    \/ DeleteTaskFind
    \/ DeleteTaskDelete
    \/ DeleteProjectCheck
    \/ DeleteProjectDelete

\* updates that name another project or creator, on two projects
TransferNext ==
    \/ GetTask
    \/ TransferUpdateTask
    \/ UpdateTaskReread
    \/ DeleteTaskFind
    \/ DeleteTaskDelete

\* the mobile client's session: start, login, register, logout
ClientNext ==
    \/ Launch
    \/ LoadStoredAuth
    \/ Render
    \/ AuthRequest
    \/ AuthPersist
    \/ Logout
    \/ UpdateUser
    \/ FetchQuery

\* the task routes as the task editor uses them
EditorNext ==
    \/ EditorCreateTask
    \/ CreateTaskCreate
    \/ GetTask
    \/ EditorUpdateTask
    \/ UpdateTaskReread
    \/ DeleteTaskFind
    \/ DeleteTaskDelete

ChildNext ==
    \/ CreateCommentFindTask
    \/ CreateCommentCreate
    \/ CreateAttachmentFindTask
    \/ CreateAttachmentCreate
    \/ ServeUpload

ReadNext ==
    \/ ListProjects
    \/ ListTasks
    \/ GetTeamFindProjects
    \/ GetTeamFindUsers

Next == MemberNext \/ ProjectNext \/ TaskNext \/ ChildNext \/ ReadNext

\* the list routes while memberships change and projects are deleted
WorkspaceNext ==
    \/ ReadNext
    \/ DeleteProjectCheck
    \/ DeleteProjectDelete
    \/ AddMemberFindUser
    \/ AddMemberCheckExisting
    \/ AddMemberCreate

\* task creation against project deletion and invitations
RaceNext ==
    \/ MemberNext
    \/ CreateTaskFindProject
    \/ CreateTaskCreate

\* the project, task, comment and attachment routes, one request at a time
Spec == InitSerial /\ [][Next]_vars

\* registration from an empty database, requests in parallel
SpecAuth == Init /\ [][AuthNext]_vars

\* project creation and deletion and invitations, requests in parallel
SpecMembers == InitTeam /\ [][MemberNext]_vars

\* the same with task creation, requests in parallel
SpecRace == InitTeam /\ [][RaceNext]_vars

\* login and the token gate of the protected routes, one request at a time
SpecAccount == InitSerial /\ [][AccountNext]_vars

\* the list routes on two projects of three users, one request at a time
SpecWorkspace == InitWorkspace /\ [][WorkspaceNext]_vars

\* the settings of alice's project, one request at a time
SpecSettings == InitEditor /\ [][SettingsNext]_vars

\* the discussion of a task of alice's project, one request at a time
SpecThread == InitEditor /\ [][ThreadNext]_vars

\* a task two members work on, requests in parallel
SpecBoard == InitBoard /\ [][BoardNext]_vars

\* the tasks of two projects, one request at a time
SpecTransfer == InitWorkspace /\ [][TransferNext]_vars

\* the mobile client against a server that knows alice and bob
SpecClient == InitSerial /\ [][ClientNext]_vars

\* the same where the reads of the storage settle and React renders
SpecClientFair == SpecClient /\ WF_vars(LoadStoredAuth) /\ WF_vars(Render)

\* the task editor on alice's project, one request at a time
SpecEditor == InitEditor /\ [][EditorNext]_vars

----------------------------------------------------------------------------
(* What the properties below speak about. *)

ByProjectId == {"getProject", "updateProject", "deleteProject", "addMember", "createTask"}
ByTaskId == {"getTask", "updateTask", "deleteTask", "createComment", "createAttachment"}

\* the project a request addresses, directly or through its task (NoId: none)
TargetProject(r) ==
    IF r.op \in ByProjectId THEN r.pid
    ELSE IF TaskExists(r.tid) THEN TaskById(r.tid).projectId
    ELSE NoId

\* the body carries the fields its route requires
WellFormed(r) ==
    /\ r.op = "createTask" => r.title # Undefined
    /\ r.op = "createComment" => r.content # ""
    /\ r.op = "createAttachment" => r.file # Undefined

Stored == <<projects, members, tasks, comments, attachments>>

OwnerRows(pid) == {m \in MemberRows : m.projectId = pid /\ m.role = "owner"}
IsOwner(uid, pid) == \E m \in OwnerRows(pid) : m.userId = uid

----------------------------------------------------------------------------
\* C1: a well-formed request of a user who holds no membership row of project P,
\* addressing P or a task under P by id, is answered 404 and stores nothing.
C1_NonMemberGetsNotFound ==
    [][ ( /\ resp' # NoResp
          /\ resp'.req.op \in ByProjectId \cup ByTaskId
          /\ WellFormed(resp'.req)
          /\ ProjectExists(TargetProject(resp'.req))
          /\ ~IsMember(resp'.req.user, TargetProject(resp'.req)) )
        => (resp'.status = 404 /\ UNCHANGED Stored) ]_vars

\* C2: a step that adds a membership row is the creation of the project or an
\* invitation whose requester holds a membership row of that project.
C2_OnlyMembersInvite ==
    [][ (\E m \in BagToSet(members') : CopiesIn(m, members') > CopiesIn(m, members))
        => \/ resp'.req.op = "createProject"
           \/ (resp'.req.op = "addMember" /\ IsMember(resp'.req.user, resp'.req.pid)) ]_vars

\* C3: a delete request for an existing project by a requester without an owner
\* row is answered 403, and the project, its members and its tasks stay as stored.
C3_NonOwnerDeleteForbidden ==
    [][ ( /\ resp' # NoResp
          /\ resp'.req.op = "deleteProject"
          /\ ProjectExists(resp'.req.pid)
          /\ ~IsOwner(resp'.req.user, resp'.req.pid) )
        => (resp'.status = 403 /\ UNCHANGED Stored) ]_vars

\* a member who is not the owner was refused, and the project still has its task
C3_Witness ==
    /\ resp.status = 403
    /\ resp.req.op = "deleteProject"
    /\ ProjectExists(resp.req.pid)
    /\ IsMember(resp.req.user, resp.req.pid)
    /\ ~IsOwner(resp.req.user, resp.req.pid)
    /\ \E t \in tasks : t.projectId = resp.req.pid

\* C5: 403 is sent only to a member of the project who is not its owner; a delete
\* request of a non-member, or for an id that names no project, is answered 404.
C5_ForbiddenOnlyForMembers ==
    [][ (resp' # NoResp /\ resp'.req.op = "deleteProject")
        => /\ resp'.status = 403 => IsMember(resp'.req.user, resp'.req.pid)
           /\ ~IsMember(resp'.req.user, resp'.req.pid) => resp'.status = 404 ]_vars

\* C4: every task row and every membership row references a stored project, and
\* a successful project deletion leaves neither the project nor any row of it.
C4_CascadeNoOrphans ==
    /\ \A t \in tasks : ProjectExists(t.projectId)
    /\ \A m \in MemberRows : ProjectExists(m.projectId)
    /\ (resp # NoResp /\ resp.req.op = "deleteProject" /\ resp.status = 200)
       => /\ ~ProjectExists(resp.req.pid)
          /\ ~\E t \in tasks : t.projectId = resp.req.pid
          /\ ~\E m \in MemberRows : m.projectId = resp.req.pid

\* a task was stored and went with its project, and a task creation that had
\* passed its project lookup before the deletion was refused by the database
C4_Witness ==
    /\ resp.status = 500
    /\ resp.req.op = "createTask"
    /\ ~ProjectExists(resp.req.pid)
    /\ nextTaskId > 1
    /\ tasks = {}

EmailOrUsernameTaken(email, username) ==
    \E i \in 1..Len(users) : users[i].email = email \/ users[i].username = username

\* C8: no two users share an email or a username; a registration whose email or
\* username a stored user holds when it is answered gets a 400 and stores nothing
\* (also when the other user was inserted after this request's lookups), and
\* any other complete registration stores exactly its user.
C8_UniqueUsers ==
    [][ /\ \A i, j \in 1..Len(users') :
               i # j => /\ users'[i].email # users'[j].email
                        /\ users'[i].username # users'[j].username
        /\ SubSeq(users', 1, Len(users)) = users
        /\ (resp' # NoResp /\ resp'.req.op = "register" /\ resp'.req.email # Undefined)
           => IF EmailOrUsernameTaken(resp'.req.email, resp'.req.username)
              THEN resp'.status = 400 /\ users' = users
              ELSE /\ resp'.status = 200
                   /\ Len(users') = Len(users) + 1
                   /\ users'[Len(users')].email = resp'.req.email
                   /\ users'[Len(users')].username = resp'.req.username ]_vars

\* two registrations with one email passed both lookups; the second insert was
\* refused and answered 400
C8_Witness ==
    /\ resp.status = 400
    /\ resp.req.op = "register"
    /\ resp.req.pc = "create"
    /\ \E i \in 1..Len(users) : users[i].email = resp.req.email

\* C9: a task creation with a title, for a project that is not stored or that the
\* requester is no member of, gets one and the same 404 from the project lookup
\* (500 when the project was deleted after the lookup) and stores no task; a task
\* is stored only for a member of its project.
C9_CreateTaskNeedsMembership ==
    [][ (resp' # NoResp /\ resp'.req.op = "createTask" /\ resp'.req.title # Undefined)
        => LET r == resp'.req IN
           /\ (~ProjectExists(r.pid) \/ ~IsMember(r.user, r.pid))
              => /\ tasks' = tasks
                 /\ IF r.pc = "findProject"
                    THEN /\ resp'.status = 404
                         /\ resp'.error = "Project not found"
                         /\ resp'.body = NoBody
                    ELSE resp'.status = 500
           /\ tasks' # tasks
              => /\ IsMember(r.user, r.pid)
                 /\ resp'.status = 200
                 /\ \E t \in tasks' : tasks' = tasks \cup {t} /\ t.projectId = r.pid ]_vars

\* the project is stored, the requester is no member of it, and was told 404
C9_Witness ==
    /\ resp.status = 404
    /\ resp.req.op = "createTask"
    /\ resp.req.title # Undefined
    /\ ProjectExists(resp.req.pid)
    /\ ~IsMember(resp.req.user, resp.req.pid)

\* C10: a new task row has the requester as creator, status "todo" and priority
\* "medium" where the body gave none; a new comment or attachment row has the
\* requester as userId / uploaderId.
C10_DefaultsAndAuthor ==
    [][ /\ \A t \in tasks' :
               t.id \notin {x.id : x \in tasks}
               => /\ resp' # NoResp /\ resp'.req.op = "createTask"
                  /\ t.creatorId = resp'.req.user
                  /\ resp'.req.status = Undefined => t.status = "todo"
                  /\ resp'.req.priority = Undefined => t.priority = "medium"
        /\ Len(comments') > Len(comments)
           => /\ resp' # NoResp /\ resp'.req.op = "createComment"
              /\ comments' = Append(comments, comments'[Len(comments')])
              /\ comments'[Len(comments')].userId = resp'.req.user
        /\ Len(attachments') > Len(attachments)
           => /\ resp' # NoResp /\ resp'.req.op = "createAttachment"
              /\ attachments' = Append(attachments, attachments'[Len(attachments')])
              /\ attachments'[Len(attachments')].uploaderId = resp'.req.user ]_vars

\* a task was created from a body without status and priority that names
\* another user as its author
C10_Witness ==
    /\ resp.status = 200
    /\ resp.req.op = "createTask"
    /\ resp.req.status = Undefined
    /\ resp.req.priority = Undefined
    /\ resp.req.author # 0
    /\ resp.req.author # resp.req.user
    /\ resp.body \in tasks
    /\ resp.body.status = "todo" /\ resp.body.priority = "medium"

\* the update requests whose updateMany ran in this step
JustWritten(r) ==
    /\ r.op = "updateTask" /\ r.pc = "reread"
    /\ CopiesIn(r, reqs') > CopiesIn(r, reqs)

\* C11: a member's PUT /api/tasks/:id sets exactly the fields its body carries,
\* among title, description, status, priority, dueDate and assigneeId, to the
\* body's values; a field the body omits keeps its value; a null dueDate clears
\* the due date, an omitted one leaves it; id, project and creator stay, and no
\* other task changes.
C11_PartialUpdate ==
    [][ \A r \in BagToSet(reqs') :
            JustWritten(r)
            => /\ TaskExists(r.tid)
               /\ IsMember(r.user, TaskById(r.tid).projectId)
               /\ \E new \in tasks' :
                      LET old == TaskById(r.tid) IN
                      /\ tasks' = (tasks \ {old}) \cup {new}
                      /\ new.id = old.id
                      /\ new.projectId = old.projectId
                      /\ new.creatorId = old.creatorId
                      /\ new.title = IF r.title = Undefined THEN old.title ELSE r.title
                      /\ new.description =
                            IF r.description = Undefined THEN old.description ELSE r.description
                      /\ new.status = IF r.status = Undefined THEN old.status ELSE r.status
                      /\ new.priority = IF r.priority = Undefined THEN old.priority ELSE r.priority
                      /\ new.dueDate = IF r.dueDate = Undefined THEN old.dueDate
                                       ELSE IF r.dueDate = Null THEN Null
                                       ELSE NewDate(r.dueDate)
                      /\ new.assigneeId =
                            IF r.assigneeId = Absent THEN old.assigneeId ELSE r.assigneeId ]_vars

\* an update that carries a status and no dueDate has been written: the task
\* has the new status and still has the due date an earlier request gave it
C11_Witness ==
    \E r \in InFlight :
        /\ r.op = "updateTask" /\ r.pc = "reread"
        /\ r.dueDate = Undefined
        /\ r.status = "completed"
        /\ TaskExists(r.tid)
        /\ TaskById(r.tid).status = "completed"
        /\ TaskById(r.tid).dueDate = NewDate("2026-12-01")

\* C12: GET /api/projects answers with exactly the projects the requester holds a
\* membership row of; GET /api/tasks answers, whatever projectId, status,
\* priority and assigneeId filters the query gives, with tasks of projects the
\* requester is a member of only, namely those of them that match the filters.
C12_ListsScopedToMember ==
    /\ (resp # NoResp /\ resp.req.op = "listProjects")
       => resp.body = {p \in projects :
                          \E m \in MemberRows : m.projectId = p.id /\ m.userId = resp.req.user}
    /\ (resp # NoResp /\ resp.req.op = "listTasks")
       => LET q == resp.req.query
              mine(t) == \E m \in MemberRows :
                            m.projectId = t.projectId /\ m.userId = resp.req.user
              matches(t) == /\ q.projectId # Absent => t.projectId = q.projectId
                            /\ q.status # Undefined => t.status = q.status
                            /\ q.priority # Undefined => t.priority = q.priority
                            /\ q.assigneeId # Absent => t.assigneeId = q.assigneeId
          IN /\ \A t \in resp.body : t \in tasks /\ mine(t) /\ matches(t)
             /\ \A t \in tasks : (mine(t) /\ matches(t)) => t \in resp.body

\* a user asked for the tasks of a project that has a task and that the user is
\* no member of, and got none, while the unfiltered list would not be empty
C12_Witness ==
    /\ resp # NoResp
    /\ resp.req.op = "listTasks"
    /\ resp.req.query.projectId # Absent
    /\ \E t \in tasks : t.projectId = resp.req.query.projectId
    /\ ~IsMember(resp.req.user, resp.req.query.projectId)
    /\ \E t \in tasks : IsMember(resp.req.user, t.projectId)
    /\ resp.body = {}

\* users i and j hold membership rows of one and the same project
ShareProject(i, j) ==
    \E m \in MemberRows, n \in MemberRows :
        m.projectId = n.projectId /\ m.userId = i /\ n.userId = j

C14_TokenGate ==
    [][ (resp' # NoResp /\ resp'.req.op \in {"getMe", "updateProfile"})
        => LET h == resp'.req.header
               genuine == /\ h.prefix = "Bearer "
                          /\ h.rest \in issued
                          /\ now < h.rest.claims.exp
           IN IF genuine
              THEN /\ resp'.status = 200
                   /\ resp'.body.id = h.rest.claims.id
                   /\ \A i \in UserIds : i # h.rest.claims.id => users'[i] = users[i]
                   /\ UNCHANGED Stored
              ELSE /\ resp'.status = 401
                   /\ resp'.error = IF h.prefix = "Bearer " THEN "Invalid token"
                                    ELSE "Unauthorized"
                   /\ users' = users
                   /\ UNCHANGED Stored ]_vars

\* a token that was handed out and has expired since was presented to
\* PUT /api/auth/profile and refused
C14_Witness ==
    /\ resp # NoResp
    /\ resp.req.op = "updateProfile"
    /\ resp.status = 401
    /\ resp.req.displayName # Undefined
    /\ resp.req.header.prefix = "Bearer "
    /\ resp.req.header.rest \in issued
    /\ now >= resp.req.header.rest.claims.exp

\* C15: POST /api/auth/login with an email and a password answers 200 with the
\* user and a token only when a stored user has the email and the password
\* matches the stored hash, and the token carries that user's id; an unknown
\* email and a wrong password get one and the same 401 "Invalid credentials";
\* no row changes in either case.
C15_LoginOutcomes ==
    [][ (resp' # NoResp /\ resp'.req.op = "login" /\ resp'.req.email # Undefined)
        => LET r == resp'.req
               holders == {i \in UserIds : users[i].email = r.email}
               matching == {i \in holders : users[i].password = <<"bcrypt", r.password>>}
           IN /\ users' = users
              /\ UNCHANGED Stored
              /\ IF matching # {}
                 THEN /\ resp'.status = 200
                      /\ resp'.body.user \in matching
                      /\ resp'.body.token.claims.id = resp'.body.user
                      /\ resp'.body.token \in issued'
                 ELSE /\ resp'.status = 401
                      /\ resp'.error = "Invalid credentials"
                      /\ resp'.body = NoBody ]_vars

\* a stored user's email with another password was answered 401
C15_Witness ==
    /\ resp # NoResp
    /\ resp.req.op = "login"
    /\ resp.status = 401
    /\ \E i \in UserIds : /\ users[i].email = resp.req.email
                           /\ users[i].password # <<"bcrypt", resp.req.password>>

\* C16: POST /api/tasks/:id/attachments stores an Attachment row only in the
\* step after its membership-scoped task lookup succeeded: for a task that does
\* not exist or whose project the requester is no member of the answer is 404
\* "Task not found" and no row is stored; without a file the answer is 400 and
\* no row is stored.
C16_AttachmentNeedsMembership ==
    [][ /\ (resp' # NoResp /\ resp'.req.op = "createAttachment")
           => LET r == resp'.req IN
              /\ r.file = Undefined
                 => /\ resp'.status = 400
                    /\ attachments' = attachments
              /\ (r.file # Undefined /\ r.pc = "findTask")
                 => /\ resp'.status = 404
                    /\ resp'.error = "Task not found"
                    /\ resp'.body = NoBody
                    /\ attachments' = attachments
                    /\ ~TaskExists(r.tid) \/ ~IsMember(r.user, TaskById(r.tid).projectId)
        /\ Len(attachments') > Len(attachments)
           => /\ resp' # NoResp
              /\ resp'.req.op = "createAttachment"
              /\ resp'.req.pc = "create"
              /\ resp'.req.file # Undefined
              /\ resp'.status = 200
              /\ TaskExists(resp'.req.tid)
              /\ IsMember(resp'.req.user, TaskById(resp'.req.tid).projectId)
              /\ attachments' = Append(attachments, resp'.body)
              /\ resp'.body.taskId = resp'.req.tid
        /\ \A r \in BagToSet(reqs') :
               (r.op = "createAttachment" /\ r.pc = "create")
               => IsMember(r.user, TaskById(r.tid).projectId) ]_vars

\* a file was sent for a stored task by a user who is no member of its project:
\* the answer was 404 and there is no Attachment row
C16_Witness ==
    /\ resp # NoResp
    /\ resp.req.op = "createAttachment"
    /\ resp.req.file # Undefined
    /\ resp.status = 404
    /\ TaskExists(resp.req.tid)
    /\ ~IsMember(resp.req.user, TaskById(resp.req.tid).projectId)
    /\ attachments = <<>>

\* C17: the file of an attachment, stored under /uploads/<stored name>, is
\* served to a requester only if the requester holds a membership in the project
\* of the attachment's task (a request without a token has no such membership).
C17_FilesOnlyForMembers ==
    ( /\ resp # NoResp
      /\ resp.req.op = "serveUpload"
      /\ resp.status = 200
      /\ \E i \in 1..Len(attachments) : attachments[i].url = resp.req.path )
    => \E i \in 1..Len(attachments) :
          /\ attachments[i].url = resp.req.path
          /\ TaskExists(attachments[i].taskId)
          /\ IsMember(resp.req.user, TaskById(attachments[i].taskId).projectId)

\* C18: POST /api/projects stores the project and the creator's owner row in one
\* step: in every state, with requests in parallel, every stored project has a
\* row with role owner, and in the state right after a creation the creator's
\* owner row is the only row of the new project.
C18_ProjectHasOwner ==
    /\ \A p \in projects : \E m \in MemberRows : m.projectId = p.id /\ m.role = "owner"
    /\ (resp # NoResp /\ resp.req.op = "createProject" /\ resp.status = 200)
       => /\ resp.body \in projects
          /\ \A m \in MemberRows :
                 m.projectId = resp.body.id
                 => m = [projectId |-> resp.body.id, userId |-> resp.req.user, role |-> "owner"]
          /\ CopiesIn([projectId |-> resp.body.id, userId |-> resp.req.user,
                       role |-> "owner"], members) = 1

\* a project was created while an invitation into the id it received was
\* already being handled
C18_Witness ==
    /\ resp # NoResp
    /\ resp.req.op = "createProject"
    /\ resp.status = 200
    /\ \E r \in InFlight : r.op = "addMember" /\ r.pid = resp.body.id

\* C19: every stored task has a status among todo, in_progress, in_review and
\* completed, a priority among low, medium and high, and a title that is not
\* empty, whatever bodies task creations and updates carried.
C19_TaskFieldDomains ==
    \A t \in tasks :
        /\ t.status \in {"todo", "in_progress", "in_review", "completed"}
        /\ t.priority \in {"low", "medium", "high"}
        /\ t.title # ""

\* C20: every ProjectMember row has role owner or member, whatever role an
\* add-member request supplied.
C20_MemberRoleDomain ==
    \A m \in MemberRows : m.role \in {"owner", "member"}

\* C21: POST /api/tasks/:id/comments stores a comment only in the step after
\* its membership-scoped task lookup succeeded for a non-empty content: a
\* missing or empty content is answered 400 whether or not the requester can
\* see the task, a non-empty content for a task that does not exist or whose
\* project the requester is no member of is answered 404 "Task not found", and
\* neither answer stores a comment.
C21_CommentNeedsContentAndMembership ==
    [][ /\ (resp' # NoResp /\ resp'.req.op = "createComment")
           => LET r == resp'.req IN
              /\ r.content \in {Undefined, ""}
                 => /\ resp'.status = 400
                    /\ r.pc = "findTask"
                    /\ comments' = comments
              /\ (r.content \notin {Undefined, ""} /\ r.pc = "findTask")
                 => /\ resp'.status = 404
                    /\ resp'.error = "Task not found"
                    /\ resp'.body = NoBody
                    /\ comments' = comments
                    /\ ~TaskExists(r.tid) \/ ~IsMember(r.user, TaskById(r.tid).projectId)
        /\ Len(comments') > Len(comments)
           => /\ resp' # NoResp
              /\ resp'.req.op = "createComment"
              /\ resp'.req.pc = "create"
              /\ resp'.req.content \notin {Undefined, ""}
              /\ resp'.status = 200
              /\ TaskExists(resp'.req.tid)
              /\ IsMember(resp'.req.user, TaskById(resp'.req.tid).projectId)
              /\ comments' = Append(comments, resp'.body)
              /\ resp'.body.content = resp'.req.content
              /\ resp'.body.taskId = resp'.req.tid
              /\ resp'.body.userId = resp'.req.user ]_vars

\* an empty content was sent for a stored task by a user who is no member of
\* its project: the answer was 400, not 404, and there is no comment
C21_Witness ==
    /\ resp # NoResp
    /\ resp.req.op = "createComment"
    /\ resp.req.content = ""
    /\ resp.status = 400
    /\ TaskExists(resp.req.tid)
    /\ ~IsMember(resp.req.user, TaskById(resp.req.tid).projectId)
    /\ comments = <<>>

\* C22: PUT /api/projects/:id, sent by a member of the project whatever the
\* member's role, replaces exactly those of name, description and color the
\* body carries and leaves the project's other columns, every other project,
\* the memberships and the tasks as they were; sent by anyone else it is
\* answered 404 "Project not found" and nothing stored changes.
C22_ProjectUpdateFrame ==
    [][ /\ \A r \in BagToSet(reqs') :
               (r.op = "updateProject" /\ r.pc = "reread" /\ CopiesIn(r, reqs') > CopiesIn(r, reqs))
               => /\ IsMember(r.user, r.pid)
                  /\ \E old \in projects, new \in projects' :
                        /\ old.id = r.pid /\ new.id = r.pid
                        /\ projects' = (projects \ {old}) \cup {new}
                        /\ new.name = IF r.name = Undefined THEN old.name ELSE r.name
                        /\ new.description =
                               IF r.description = Undefined THEN old.description ELSE r.description
                        /\ new.color = IF r.color = Undefined THEN old.color ELSE r.color
                  /\ members' = members
                  /\ tasks' = tasks
                  /\ comments' = comments
                  /\ attachments' = attachments
        /\ (resp' # NoResp /\ resp'.req.op = "updateProject")
           => /\ Stored' = Stored
              /\ resp'.req.pc = "updateMany"
                 => /\ resp'.status = 404
                    /\ resp'.error = "Project not found"
                    /\ ~IsMember(resp'.req.user, resp'.req.pid)
        /\ projects' # projects /\ Cardinality(projects') = Cardinality(projects)
           => \E r \in BagToSet(reqs') :
                  /\ r.op = "updateProject" /\ r.pc = "reread"
                  /\ CopiesIn(r, reqs') > CopiesIn(r, reqs) ]_vars

\* a member who is not the owner changed the color alone: name and description
\* are those the project had
C22_Witness ==
    \E r \in BagToSet(reqs), p \in projects :
        /\ r.op = "updateProject" /\ r.pc = "reread"
        /\ r.name = Undefined /\ r.description = Undefined /\ r.color = "#10B981"
        /\ \E m \in BagToSet(members) :
               m.projectId = r.pid /\ m.userId = r.user /\ m.role # "owner"
        /\ p.id = r.pid
        /\ p.name = "Launch" /\ p.description = Null /\ p.color = "#10B981"

\* C23: a ProjectMember row stays as it is, project and user included, in
\* every step after which its project exists; the rows of a project go only in
\* the step of a DELETE /api/projects/:id that removes the project, and the id
\* of a removed project is never given to another project. So a user who is a
\* member of a project is a member in every later state in which the project
\* exists.
C23_MembershipsPersist ==
    [][ /\ \A m \in BagToSet(members) :
               /\ ProjectExists(m.projectId)'
                  => /\ CopiesIn(m, members') >= CopiesIn(m, members)
                     /\ IsMember(m.userId, m.projectId)'
               /\ (ProjectExists(m.projectId) /\ ~ProjectExists(m.projectId)')
                  => /\ resp' # NoResp
                     /\ resp'.req.op = "deleteProject"
                     /\ resp'.req.pid = m.projectId
                     /\ resp'.status = 200
        /\ \A p \in projects' :
               (\A q \in projects : q.id # p.id)
               => /\ p.id = nextProjectId
                  /\ nextProjectId' > nextProjectId
        /\ nextProjectId' >= nextProjectId ]_vars

\* bob, invited to alice's project, asked for its deletion and was refused:
\* alice and bob are the project's members as before
C23_Witness ==
    /\ resp # NoResp
    /\ resp.req.op = "deleteProject"
    /\ resp.status = DeleteProjectDeniedStatus
    /\ ProjectExists(resp.req.pid)
    /\ \E m \in BagToSet(members) :
           m.projectId = resp.req.pid /\ m.userId = resp.req.user /\ m.role # "owner"
    /\ \E m \in BagToSet(members) :
           m.projectId = resp.req.pid /\ m.userId # resp.req.user /\ m.role = "owner"

\* C24: in every step the comments are the comments before, or those with one
\* row appended, or those without the rows of a task removed in this step by a
\* DELETE of the task or of its project; likewise the attachments. So no
\* request changes the content, task or author of a stored comment or the
\* filename, url, task or uploader of a stored attachment.
C24_ChildrenAppendOnly ==
    [][ LET cascade == /\ resp' # NoResp
                       /\ resp'.req.op \in {"deleteTask", "deleteProject"}
                       /\ resp'.status = 200
            kept(c) == TaskExists(c.taskId)'
            appended(old, new) == /\ Len(new) = Len(old) + 1
                                  /\ SubSeq(new, 1, Len(old)) = old
        IN  /\ \/ comments' = comments
               \/ appended(comments, comments')
               \/ cascade /\ comments' = SelectSeq(comments, kept)
            /\ \/ attachments' = attachments
               \/ appended(attachments, attachments')
               \/ cascade /\ attachments' = SelectSeq(attachments, kept)
            /\ \A i \in 1..Len(comments) : TaskExists(comments[i].taskId)
            /\ \A i \in 1..Len(attachments) : TaskExists(attachments[i].taskId) ]_vars

\* a second comment was added to a task and its title then changed: both
\* comments and the attachment are stored as they were written
C24_Witness ==
    /\ Len(comments) = MaxThread
    /\ comments[1].content # comments[MaxThread].content
    /\ Len(attachments) = 1
    /\ resp # NoResp
    /\ resp.req.op = "updateTask"
    /\ resp.status = 200
    /\ comments[1].taskId = resp.req.tid
    /\ attachments[1].taskId = resp.req.tid

\* C25: whenever PUT /api/tasks/:id is answered 200, the body of the answer is
\* the task the request names, never an empty body, and the requester is a
\* member of that task's project.
C25_UpdateAnswersTask ==
    (resp # NoResp /\ resp.req.op = "updateTask" /\ resp.status = 200)
    => /\ resp.body # NoBody
       /\ resp.body.id = resp.req.tid
       /\ IsMember(resp.req.user, resp.body.projectId)

\* C26: a DELETE /api/tasks/:id that passed its lookup is answered 200 when its
\* own delete removes the task and 404 when the task is gone by then: the
\* answer of the route is never a server error.
C26_DeleteTaskAnswers ==
    (resp # NoResp /\ resp.req.op = "deleteTask") => resp.status \in {200, 404}

\* C27: a stored task keeps its projectId and its creatorId in every step,
\* whatever fields the body of a PUT /api/tasks/:id carries, and the id of a
\* task is never given to another task.
C27_TaskProjectAndCreatorFixed ==
    [][ /\ \A old \in tasks, new \in tasks' :
               new.id = old.id
               => /\ new.projectId = old.projectId
                  /\ new.creatorId = old.creatorId
        /\ \A new \in tasks' :
               (\A old \in tasks : old.id # new.id) => new.id = nextTaskId
        /\ nextTaskId' >= nextTaskId ]_vars

\* alice's update naming carol's project and carol as creator has been written:
\* the task has the new title and is still alice's task in project 1
C27_Witness ==
    \E r \in InFlight :
        /\ r.op = "updateTask" /\ r.pc = "reread"
        /\ r.title = "Ship it" /\ r.projectId = 2 /\ r.creatorId = 3
        /\ TaskExists(r.tid)
        /\ TaskById(r.tid).title = "Ship it"
        /\ TaskById(r.tid).projectId = 1
        /\ TaskById(r.tid).creatorId = 1

\* C28: the assigneeId of every stored task is null or the id of a user who is
\* a member of the task's project.
C28_AssigneeIsMember ==
    \A t \in tasks : t.assigneeId = NoId \/ IsMember(t.assigneeId, t.projectId)

\* C29: after POST /api/tasks/:id/attachments was answered 404, the file the
\* request carried is not in the uploads directory.
C29_RejectedUploadLeavesNoFile ==
    (resp # NoResp /\ resp.req.op = "createAttachment" /\ resp.status = 404)
    => resp.req.stored \notin uploads

\* C30: on the client, isAuthenticated holds exactly when token and user are
\* both non-null. A finished loadStoredAuth has set both or neither, and
\* isLoading is false after it. login and register leave both null until the
\* server call succeeded and both items were written, and set them to the
\* answered values then. A logout that returned has removed both items, set
\* token and user to null and emptied the query cache. The navigator shows
\* the screens Main, TaskDetail, ProjectDetail, CreateModal and TaskChat only
\* while isAuthenticated and no screen but Auth otherwise. isLoading becomes
\* false after every start of the app, also when the storage read fails.
C30_ClientSession ==
    /\ [](isAuthenticated(app) <=> (app.token # Nil /\ app.user # Nil))
    /\ [](Settled => (app.token = Nil <=> app.user = Nil))
    /\ [](app.call = Returned("loadStoredAuth") => ~app.isLoading)
    /\ []((app.call.op \in {"login", "register"} /\ app.call.pc \in {"setItem", "threw"})
          => (app.token = Nil /\ app.user = Nil))
    /\ []((app.call.op \in {"login", "register"} /\ app.call.pc \in {"render", "returned"})
          => /\ app.token # Nil
             /\ app.storage.token = app.token
             /\ app.call.pc = "returned" => app.storage.user = Stringify(app.user))
    /\ [](app.call = Returned("logout")
          => /\ app.token = Nil /\ app.user = Nil
             /\ app.storage = [token |-> Nil, user |-> Nil]
             /\ app.cache = {})
    /\ []( /\ Screens(app) \cap {"Main", "TaskDetail", "ProjectDetail", "CreateModal", "TaskChat"} # {}
              => isAuthenticated(app)
           /\ ~(app.token # Nil /\ app.user # Nil) => Screens(app) \subseteq {"Auth"}
           /\ (~app.isLoading /\ app.token # Nil /\ app.user # Nil)
              => Screens(app) = {"Main", "TaskDetail", "ProjectDetail", "CreateModal", "TaskChat"} )
    /\ [][ /\ (app.token = Nil /\ app'.token # Nil)
              => \/ /\ app.call.op \in {"login", "register"} /\ app.call.pc = "setItem"
                    /\ app.call.data \in ApiAnswers \ {Rejected}
                    /\ app'.token = app.call.data.token
                    /\ app'.storage = [token |-> app.call.data.token,
                                       user |-> Stringify(app.call.data.user)]
                 \/ /\ app.call.op = "loadStoredAuth" /\ app.call.pc = "getItem"
                    /\ app'.token = app.storage.token
                    /\ app.storage.user # Nil
           /\ (app.user = Nil /\ app'.user # Nil)
              => \/ /\ app.call.op \in {"login", "register"}
                    /\ app'.storage.user = Stringify(app'.user)
                    /\ app'.token # Nil /\ app'.token.claims.id = app'.user.id
                 \/ /\ app.call.op = "loadStoredAuth"
                    /\ app'.user = Parse(app.storage.user)
                    /\ app'.token # Nil ]_vars
    /\ (app.isLoading ~> ~app.isLoading)

\* the app was started again after a login whose user item could not be
\* written: the read found the token alone, and the Auth screen is shown
C30_Witness ==
    /\ app.call = Returned("loadStoredAuth")
    /\ app.launches > 1
    /\ app.storage.token # Nil
    /\ app.storage.user = Nil
    /\ app.token = Nil /\ app.user = Nil
    /\ ~app.isLoading
    /\ Screens(app) = {"Auth"}

====
